---- MODULE Spec2Model ----
(***************************************************************************)
(* sqlq: reads SQL text from standard input, executes every GO-terminated  *)
(* batch against the database and streams the result sets to standard      *)
(* output as CSV (src/main.go); src/unnamed/part_000 is the variant with   *)
(* one result set per batch that reports a row count.                      *)
(*                                                                         *)
(* Text (Go strings) is a sequence of one-character strings; a byte slice  *)
(* is a sequence of integers 0..255.  The database driver and the          *)
(* operating system (standard input, standard output) are the environment: *)
(* every answer they can give is a nondeterministic choice of the action   *)
(* that asks them.                                                         *)
(***************************************************************************)
EXTENDS Integers, Sequences, FiniteSets, TLC

\* ------------------------------------------------------------------ bounds
\* Lines the scanner delivers at most in one run.
MaxLines == 3

\* ------------------------------------------------------------------ text helpers
LowerLetters ==
    << "a","b","c","d","e","f","g","h","i","j","k","l","m",
       "n","o","p","q","r","s","t","u","v","w","x","y","z" >>
UpperLetters ==
    << "A","B","C","D","E","F","G","H","I","J","K","L","M",
       "N","O","P","Q","R","S","T","U","V","W","X","Y","Z" >>

\* unicode.ToUpper on one (ASCII) character.
UpperChar(c) ==
    IF \E i \in 1..26 : LowerLetters[i] = c
    THEN UpperLetters[CHOOSE i \in 1..26 : LowerLetters[i] = c]
    ELSE c

\* strings.ToUpper
ToUpper(s) == [i \in 1..Len(s) |-> UpperChar(s[i])]

\* The white space of Unicode (the White_Space property), as unicode.IsSpace
\* decides it.  The vertical tab U+000B is written as itself; a character
\* beyond ASCII is written as the name of its code point, so that every
\* character is one value whatever the encoding the module is read in.
VerticalTab == ""
NextLine == "U+0085"
NoBreakSpace == "U+00A0"
WideSpaces ==
    { "U+1680", "U+2000", "U+2001", "U+2002", "U+2003", "U+2004", "U+2005",
      "U+2006", "U+2007", "U+2008", "U+2009", "U+200A", "U+2028", "U+2029",
      "U+202F", "U+205F", "U+3000" }
\* unicode.IsSpace
IsSpace(c) ==
    \/ c \in {" ", "\t", "\n", VerticalTab, "\f", "\r"}
    \/ c \in {NextLine, NoBreakSpace}
    \/ c \in WideSpaces

\* strings.TrimSpace: drops the leading and the trailing white space.
RECURSIVE TrimLeft(_)
TrimLeft(s) ==
    IF s # <<>> /\ IsSpace(Head(s)) THEN TrimLeft(Tail(s)) ELSE s
RECURSIVE TrimRight(_)
TrimRight(s) ==
    IF s # <<>> /\ IsSpace(s[Len(s)]) THEN TrimRight(SubSeq(s, 1, Len(s) - 1)) ELSE s
TrimSpace(s) == TrimRight(TrimLeft(s))

\* The batch terminator test of the read loop without case folding (a slip
\* that would miss "go").
IsGoLineCaseSensitive(line) == TrimSpace(line) = <<"G", "O">>
\* main: strings.ToUpper(strings.TrimSpace(line)) == "GO"
IsGoLine(line) == ToUpper(TrimSpace(line)) = <<"G", "O">>

\* Appending a line with a bare line feed (a slip that drops the "\r").
AppendLineLF(text, line) == text \o line \o <<"\n">>
\* main: text.WriteString(line); text.WriteString("\r\n")
AppendLine(text, line) == text \o line \o <<"\r", "\n">>

\* strconv.FormatInt(n, 10)
DigitChars == << "0","1","2","3","4","5","6","7","8","9" >>
RECURSIVE FormatNat(_)
FormatNat(n) ==
    IF n < 10 THEN << DigitChars[n + 1] >>
    ELSE FormatNat(n \div 10) \o << DigitChars[(n % 10) + 1] >>
FormatInt(n) == IF n < 0 THEN <<"-">> \o FormatNat(0 - n) ELSE FormatNat(n)

\* encoding/hex.EncodeToString
HexChars == << "0","1","2","3","4","5","6","7","8","9","a","b","c","d","e","f" >>
RECURSIVE HexEncode(_)
HexEncode(bytes) ==
    IF bytes = <<>> THEN <<>>
    ELSE << HexChars[(Head(bytes) \div 16) + 1], HexChars[(Head(bytes) % 16) + 1] >>
         \o HexEncode(Tail(bytes))

\* string([]byte): the character of each byte, for the ASCII letters, digits
\* and the punctuation a rendered number holds (the value pools use no other).
ByteChar(b) ==
    CASE b >= 48 /\ b <= 57 -> DigitChars[b - 47]
      [] b >= 65 /\ b <= 90 -> UpperLetters[b - 64]
      [] b >= 97 /\ b <= 122 -> LowerLetters[b - 96]
      [] b = 32 -> " "
      [] b = 43 -> "+"
      [] b = 44 -> ","
      [] b = 45 -> "-"
      [] b = 46 -> "."
BytesToString(bytes) == [i \in 1..Len(bytes) |-> ByteChar(bytes[i])]

\* uuid.FromBytes: fails unless the slice holds 16 bytes.
UuidFromBytesOk(bytes) == Len(bytes) = 16
\* uuid.UUID.String: xxxxxxxx-xxxx-xxxx-xxxx-xxxxxxxxxxxx, bytes in slice order.
UuidString(bytes) ==
    HexEncode(SubSeq(bytes, 1, 4)) \o <<"-">> \o HexEncode(SubSeq(bytes, 5, 6))
    \o <<"-">> \o HexEncode(SubSeq(bytes, 7, 8)) \o <<"-">>
    \o HexEncode(SubSeq(bytes, 9, 10)) \o <<"-">> \o HexEncode(SubSeq(bytes, 11, 16))

\* ------------------------------------------------------------------ values and columns
\* A decoded cell (the *any that rows.Scan fills): t is the Go dynamic type,
\* x the value: nil, bool, int64, []byte or string.
Val(t, x) == [t |-> t, x |-> x]
NullVal == Val("null", <<>>)

TypeUniqueIdentifier ==
    << "U","N","I","Q","U","E","I","D","E","N","T","I","F","I","E","R" >>
TypeDecimal == << "D","E","C","I","M","A","L" >>
TypeMoney == << "M","O","N","E","Y" >>
TypeBit == << "B","I","T" >>
TypeInt == << "I","N","T" >>
TypeVarBinary == << "V","A","R","B","I","N","A","R","Y" >>
TypeNVarChar == << "N","V","A","R","C","H","A","R" >>

\* sql.ColumnType as writeHeader and writeResultSet read it.
Col(name, typ, hasNullable, nullable, hasLength, length, hasDecimalSize, decimalSize, decimalScale) ==
    [ name |-> name, typ |-> typ,
      hasNullable |-> hasNullable, nullable |-> nullable,
      hasLength |-> hasLength, length |-> length,
      hasDecimalSize |-> hasDecimalSize,
      decimalSize |-> decimalSize, decimalScale |-> decimalScale ]

\* The two driver markers of an unbounded column.
MaxLengthVarBinary == 2147483645
MaxLengthNVarChar == 1073741822

\* strings.ReplaceAll(colName, "]", "]]")
RECURSIVE EscapeBrackets(_)
EscapeBrackets(s) ==
    IF s = <<>> THEN <<>>
    ELSE (IF Head(s) = "]" THEN <<"]", "]">> ELSE << Head(s) >>) \o EscapeBrackets(Tail(s))

\* The size part with one of the two markers forgotten (a slip).
SizeSuffixOneMarker(c) ==
    IF c.hasLength
    THEN <<"(">>
         \o (IF c.length = MaxLengthVarBinary
             THEN <<"m", "a", "x">>
             ELSE FormatInt(c.length))
         \o <<")">>
    ELSE IF c.hasDecimalSize
         THEN <<"(">> \o FormatInt(c.decimalSize) \o <<",">>
              \o FormatInt(c.decimalScale) \o <<")">>
         ELSE <<>>
\* writeHeader: the size part of a label.
SizeSuffix(c) ==
    IF c.hasLength
    THEN <<"(">>
         \o (IF c.length = MaxLengthVarBinary \/ c.length = MaxLengthNVarChar
             THEN <<"m", "a", "x">>
             ELSE FormatInt(c.length))
         \o <<")">>
    ELSE IF c.hasDecimalSize
         THEN <<"(">> \o FormatInt(c.decimalSize) \o <<",">>
              \o FormatInt(c.decimalScale) \o <<")">>
         ELSE <<>>

\* writeHeader: the nullability part of a label.
NullabilitySuffix(c) ==
    IF c.hasNullable
    THEN <<" ">> \o (IF ~c.nullable THEN <<"N", "O", "T", " ">> ELSE <<>>)
         \o <<"N", "U", "L", "L">>
    ELSE <<>>

\* writeHeader: the label of one column.
ColumnLabel(c) ==
    <<"[">> \o EscapeBrackets(c.name) \o <<"]", " ">> \o c.typ
    \o SizeSuffix(c) \o NullabilitySuffix(c)

\* queryCSV.writeHeader: one label per column, in column order.
writeHeader(colTypes) == [i \in 1..Len(colTypes) |-> ColumnLabel(colTypes[i])]

\* fmt.Sprintf("%v", v) for the scalar kinds the driver decodes.
SprintfV(v) ==
    CASE v.t = "int" -> FormatInt(v.x)
      [] v.t = "bool" -> IF v.x THEN <<"t","r","u","e">> ELSE <<"f","a","l","s","e">>
      [] v.t = "string" -> v.x

\* The format loop with the nil test in the default case only (a slip that
\* lets the rules of the four special types see a nil value).
FormatCellNullLast(c, v, prev, nullStr) ==
    CASE c.typ = TypeUniqueIdentifier ->
            IF v.t = "bytes" /\ UuidFromBytesOk(v.x)
            THEN [ok |-> TRUE, s |-> UuidString(v.x)]
            ELSE [ok |-> FALSE, s |-> prev]
      [] c.typ = TypeDecimal -> [ok |-> TRUE, s |-> prev]
      [] c.typ = TypeMoney ->
            [ok |-> TRUE, s |-> IF v.t = "bytes" THEN BytesToString(v.x) ELSE <<>>]
      [] c.typ = TypeBit ->
            [ok |-> TRUE, s |-> IF v.t = "bool" /\ v.x THEN <<"1">> ELSE <<"0">>]
      [] OTHER ->
            IF v.t = "null" THEN [ok |-> TRUE, s |-> nullStr]
            ELSE IF v.t = "bytes"
                 THEN [ok |-> TRUE, s |-> <<"0", "x">> \o HexEncode(v.x)]
                 ELSE [ok |-> TRUE, s |-> SprintfV(v)]
\* writeResultSet, one cell of the format loop: the outcome for column c with
\* decoded value v when the row buffer holds prev at that position.
\* ok = FALSE is the uuid construction failure; a DECIMAL case has an empty
\* body (Go cases do not fall through), so the buffer keeps what it held.
FormatCell(c, v, prev, nullStr) ==
    IF v.t = "null" THEN [ok |-> TRUE, s |-> nullStr]
    ELSE CASE c.typ = TypeUniqueIdentifier ->
                IF UuidFromBytesOk(v.x)
                THEN [ok |-> TRUE, s |-> UuidString(v.x)]
                ELSE [ok |-> FALSE, s |-> prev]
           [] c.typ = TypeDecimal -> [ok |-> TRUE, s |-> prev]
           [] c.typ = TypeMoney -> [ok |-> TRUE, s |-> BytesToString(v.x)]
           [] c.typ = TypeBit -> [ok |-> TRUE, s |-> IF v.x THEN <<"1">> ELSE <<"0">>]
           [] OTHER ->
                IF v.t = "bytes"
                THEN [ok |-> TRUE, s |-> <<"0", "x">> \o HexEncode(v.x)]
                ELSE [ok |-> TRUE, s |-> SprintfV(v)]

\* The format loop skipped: the row buffer goes out as it stands (a slip that
\* writes the record before formatting the row).
FormatRowKeepBuffer(colTypes, rowValues, buf, nullStr, i) ==
    [ok |-> TRUE, formatted |-> buf]
\* writeResultSet, the format loop from column i on: the row buffer after it
\* and whether it returned early with the uuid error.
RECURSIVE FormatRow(_, _, _, _, _)
FormatRow(colTypes, rowValues, buf, nullStr, i) ==
    IF i > Len(colTypes) THEN [ok |-> TRUE, formatted |-> buf]
    ELSE LET r == FormatCell(colTypes[i], rowValues[i], buf[i], nullStr)
         IN  IF ~r.ok THEN [ok |-> FALSE, formatted |-> buf]
             ELSE FormatRow(colTypes, rowValues, [buf EXCEPT ![i] = r.s], nullStr, i + 1)

\* ------------------------------------------------------------------ errors
\* The error execQuery returns: kind names the fmt.Errorf site, row the
\* row index the row sites put in the message (0 at the other sites).
Error(kind, row) == [kind |-> kind, row |-> row]
NoError == Error("nil", 0)

\* The row index without the +1 (a slip that would tag rows from 0).
RowIndexZeroBased(rowCount) == rowCount
\* writeResultSet: the index the row errors are tagged with, rowCount+1.
RowIndex(rowCount) == rowCount + 1

\* ------------------------------------------------------------------ the environment's inputs
\* Lines the scanner can deliver (bufio.ScanLines has dropped the line end).
LineGo == << "G", "O" >>
LineGoLower == << " ", VerticalTab, "g", "o", NoBreakSpace, "U+2003", "\t" >>
LineSelect == << "S", "E", "L" >>
LineGoX == << "G", "O", " ", "x" >>
LinePool == << LineGo, LineGoLower, LineSelect, LineGoX >>

\* The -null flag: its default and an empty literal.
NullStringPool == << <<"N", "U", "L", "L">>, <<>> >>

\* Column lists the driver can report for a result set.
ColsNone == <<>>
ColsA ==
    << Col(<<"u">>, TypeUniqueIdentifier, TRUE, TRUE, FALSE, 0, FALSE, 0, 0),
       Col(<<"d">>, TypeDecimal, TRUE, FALSE, FALSE, 0, TRUE, 10, 2),
       Col(<<"b">>, TypeBit, FALSE, FALSE, FALSE, 0, FALSE, 0, 0) >>
ColsB ==
    << Col(<<"m">>, TypeMoney, TRUE, TRUE, FALSE, 0, TRUE, 19, 4),
       Col(<<"a", "]", "b">>, TypeVarBinary, TRUE, TRUE, TRUE, MaxLengthVarBinary, FALSE, 0, 0),
       Col(<<"n">>, TypeInt, TRUE, FALSE, FALSE, 0, FALSE, 0, 0) >>
ColsC ==
    << Col(<<>>, TypeNVarChar, TRUE, TRUE, TRUE, 50, FALSE, 0, 0) >>

Uuid1 == << 1, 35, 69, 103, 137, 171, 205, 239, 0, 17, 34, 51, 68, 85, 102, 119 >>
RowA1 == << Val("bytes", Uuid1), Val("bytes", <<49, 46, 53, 48>>), Val("bool", TRUE) >>
RowA2 == << NullVal, Val("bytes", <<50>>), Val("bool", FALSE) >>
RowA3 == << Val("bytes", <<1, 2, 3>>), NullVal, NullVal >>
RowB1 == << Val("bytes", <<57, 46, 57, 57>>), Val("bytes", <<222, 173>>), Val("int", 42) >>
RowB2 == << NullVal, NullVal, Val("int", 0 - 7) >>
RowC1 == << Val("string", <<"h", "i">>) >>

\* One result set of a server response: its columns and the rows it holds.
ResultSet(cols, rows) == [cols |-> cols, rows |-> rows]

\* The responses the server can give to a batch: the result sets in order.
Responses ==
    << << ResultSet(ColsNone, <<>>) >>,
       << ResultSet(ColsB, <<RowB1, RowB2>>) >>,
       << ResultSet(ColsA, <<RowA1, RowA2>>), ResultSet(ColsC, <<RowC1>>) >>,
       << ResultSet(ColsNone, <<>>), ResultSet(ColsA, <<RowA2, RowA1, RowA3>>),
          ResultSet(ColsNone, <<>>) >>,
       << ResultSet(ColsC, <<>>), ResultSet(ColsNone, <<>>), ResultSet(ColsB, <<RowB2>>) >>,
       << ResultSet(ColsC, <<RowC1>>), ResultSet(ColsNone, <<>>) >> >>

\* ------------------------------------------------------------------ state
VARIABLES
    pc,          \* where main / execQuery stands
    exitCode,    \* the process status once it has exited, -1 before
    fatal,       \* what ended the process before the end of input, "none" otherwise
    db,          \* the *sql.DB handle: "none", "open", "closed"
    nullString,  \* the -null flag
    nRead,       \* lines the scanner has delivered
    text,        \* the strings.Builder of the read loop
    pending,     \* history: the lines delivered since the last GO line
    batchSrc,    \* history: the lines that were pending when the last GO line came
    goSeen,      \* history: GO lines delivered so far
    submitted,   \* QueryContext calls made so far
    lastText,    \* the statement text of the last QueryContext call
    resp,        \* the server's result sets from the current one on
    rows,        \* the *sql.Rows cursor: "none", "open", "closed"
    rowsErr,     \* the error rows.Err() reports (a bool: set or not)
    timedOut,    \* the deadline of this batch's context has passed
    hitEOF,      \* rows.Next() has closed the cursor itself (database/sql's hitEOF)
    rsIdx,       \* result sets discovered in this batch
    colTypes,    \* the column list of the current result set
    rsCols,      \* history: the column count of every result set discovered
    lastcols,    \* the row rows.Next() has fetched
    rowCount,    \* writeResultSet's loop counter
    formatted,   \* writeResultSet's row buffer
    err,         \* main's err: what execQuery returned, until it is reported
    sink,        \* the q.cw.Write calls of this batch, in order, with their outcome
    cwErr,       \* the csv.Writer holds a write error (it is kept for good)
    cwBuf,       \* records the csv.Writer has accepted and not yet written out
    flushed,     \* cw.Flush() has run for this batch
    stdoutBatch, \* the records of this batch on standard output
    stdoutPrev,  \* whether earlier batches put a record on standard output
    stderrN,     \* the number of batch reports on standard error
    rowsQueried, \* the count of the last "row(s) queried" line, -1 before any
    failures     \* history: execQuery calls that returned an error

vars ==
    << pc, exitCode, fatal, db, nullString, nRead, text, pending, batchSrc, goSeen,
       submitted, lastText, resp, rows, rowsErr, timedOut, hitEOF, rsIdx, colTypes, rsCols,
       lastcols, rowCount,
       formatted, err, sink, cwErr, cwBuf, flushed, stdoutBatch, stdoutPrev, stderrN,
       rowsQueried, failures >>

outVars == << stdoutPrev, stderrN, rowsQueried, flushed, failures >>
cursorVars ==
    << resp, rows, rowsErr, timedOut, hitEOF, rsIdx, colTypes, rsCols, lastcols, rowCount,
       formatted >>
sinkVars == << sink, cwErr, cwBuf, stdoutBatch >>

\* The state of one batch's locals before execQuery runs.
BatchInit ==
    /\ resp = <<>>
    /\ rows = "none"
    /\ rowsErr = FALSE
    /\ timedOut = FALSE
    /\ hitEOF = FALSE
    /\ rsIdx = 0
    /\ colTypes = <<>>
    /\ rsCols = <<>>
    /\ lastcols = <<>>
    /\ rowCount = 0
    /\ formatted = <<>>
    /\ sink = <<>>
    /\ cwErr = FALSE
    /\ cwBuf = <<>>
    /\ flushed = FALSE
    /\ stdoutBatch = <<>>

Init ==
    /\ pc = "start"
    /\ exitCode = -1
    /\ fatal = "none"
    /\ db = "none"
    /\ nullString \in {NullStringPool[i] : i \in 1..Len(NullStringPool)}
    /\ nRead = 0
    /\ text = <<>>
    /\ pending = <<>>
    /\ batchSrc = <<>>
    /\ goSeen = 0
    /\ submitted = 0
    /\ lastText = <<>>
    /\ BatchInit
    /\ stdoutPrev = FALSE
    /\ stderrN = 0
    /\ rowsQueried = -1
    /\ err = NoError
    /\ failures = 0

\* ------------------------------------------------------------------ main: start-up
\* main: the connection string from -cs, or from the variable -csenv names;
\* "" stands for the two missing cases that end the process.
ResolveConnectionString(csTmpl, csEnv, envValue) ==
    IF csTmpl # "" THEN csTmpl
    ELSE IF csEnv = "" THEN ""
         ELSE envValue

\* A fatal report followed by a plain return from main instead of os.Exit(1)
\* (a slip that would end the process with status 0).
ExitFatalStatusZero(cause) ==
    /\ pc' = "exit"
    /\ exitCode' = 0
    /\ fatal' = cause
\* The status of a process that died of SIGPIPE (signal 13): a write found
\* standard output or standard error a pipe whose reader has gone.
SigPipeStatus == 128 + 13

\* A fatal report on standard error, then os.Exit(1): deferred calls do not
\* run, db stays as it is.  When standard error is a broken pipe the report
\* itself ends the process by SIGPIPE and os.Exit(1) is not reached.
ExitFatal(cause) ==
    /\ pc' = "exit"
    /\ exitCode' \in {1, SigPipeStatus}
    /\ fatal' = cause

\* What flag.Parse() makes of the command line: "ok" when every argument is a
\* known flag with a well-formed value, "help" for -h or -help, "bad" for an
\* unknown flag or a malformed value (-t abc).
CommandLines == {"ok", "help", "bad"}
\* flag.Parse() on the default flag set (flag.ExitOnError): usage is printed
\* and the process ends with status 0 for help, with status 2 for a bad
\* command line; no connection string has been looked at, no handle exists.
\* Usage goes to standard error: a broken pipe there ends the process by
\* SIGPIPE before either status is produced.
ExitUsage(args) ==
    /\ pc' = "exit"
    /\ exitCode' \in {IF args = "help" THEN 0 ELSE 2, SigPipeStatus}
    /\ fatal' = "usage"

\* main: flag parsing and connection string resolution.
Configure ==
    /\ pc = "start"
    /\ \E args \in CommandLines, csTmpl \in {"", "dsn"}, csEnv \in {"", "CS"},
          envValue \in {"", "dsn"} :
          IF args # "ok"
          THEN ExitUsage(args)
          ELSE IF ResolveConnectionString(csTmpl, csEnv, envValue) = ""
               THEN ExitFatal("config")
               ELSE pc' = "open" /\ UNCHANGED << exitCode, fatal >>
    /\ UNCHANGED << db, nullString, nRead, text, pending, batchSrc, goSeen, submitted,
                    lastText, err >>
    /\ UNCHANGED << cursorVars, sinkVars, outVars >>

\* main: sql.Open; on success the deferred c.Close() is registered.
Open ==
    /\ pc = "open"
    /\ \E ok \in BOOLEAN :
          IF ok
          THEN pc' = "ping" /\ db' = "open" /\ UNCHANGED << exitCode, fatal >>
          ELSE ExitFatal("open") /\ UNCHANGED db
    /\ UNCHANGED << nullString, nRead, text, pending, batchSrc, goSeen, submitted,
                    lastText, err >>
    /\ UNCHANGED << cursorVars, sinkVars, outVars >>

\* main: c.PingContext under the ten second deadline.
Ping ==
    /\ pc = "ping"
    /\ \E ok \in BOOLEAN :
          IF ok
          THEN pc' = "read" /\ UNCHANGED << exitCode, fatal >>
          ELSE ExitFatal("ping")
    /\ UNCHANGED << db, nullString, nRead, text, pending, batchSrc, goSeen, submitted,
                    lastText, err >>
    /\ UNCHANGED << cursorVars, sinkVars, outVars >>

\* ------------------------------------------------------------------ main: the read loop
\* History only, read by the properties and by no guard: 1 for the lines of
\* LinePool whose trimmed, upper-cased content is GO, written out by hand.
GoCount(line) == IF line = LineGo \/ line = LineGoLower THEN 1 ELSE 0

\* The read loop when the line is not a terminator: append it to the text.
ReadText ==
    /\ pc = "read"
    /\ nRead < MaxLines
    /\ \E i \in 1..Len(LinePool) :
          /\ ~IsGoLine(LinePool[i])
          /\ text' = AppendLine(text, LinePool[i])
          /\ pending' = Append(pending, LinePool[i])
          /\ goSeen' = goSeen + GoCount(LinePool[i])
    /\ nRead' = nRead + 1
    /\ UNCHANGED << pc, exitCode, fatal, db, nullString, batchSrc, submitted, lastText, err >>
    /\ UNCHANGED << cursorVars, sinkVars, outVars >>

\* The read loop when the line is a terminator: a csv.Writer and a queryCSV
\* are made and execQuery(text.String()) is entered.
ReadGo ==
    /\ pc = "read"
    /\ nRead < MaxLines
    /\ \E i \in 1..Len(LinePool) :
          /\ IsGoLine(LinePool[i])
          /\ goSeen' = goSeen + GoCount(LinePool[i])
    /\ nRead' = nRead + 1
    /\ batchSrc' = pending
    /\ pending' = <<>>
    /\ pc' = "query"
    /\ UNCHANGED << exitCode, fatal, db, nullString, text, submitted, lastText, err >>
    /\ UNCHANGED << cursorVars, sinkVars, outVars >>

\* scanner.Scan() returns false with no error: main returns, the deferred
\* c.Close() runs and the process ends with status 0.
ReadEOF ==
    /\ pc = "read"
    /\ pc' = "exit"
    /\ exitCode' = 0
    /\ db' = "closed"
    /\ UNCHANGED << fatal, nullString, nRead, text, pending, batchSrc, goSeen, submitted,
                    lastText, err >>
    /\ UNCHANGED << cursorVars, sinkVars, outVars >>

\* scanner.Scan() returns false with an error: reported, then os.Exit(1).
ReadError ==
    /\ pc = "read"
    /\ ExitFatal("read")
    /\ UNCHANGED << db, nullString, nRead, text, pending, batchSrc, goSeen, submitted,
                    lastText, err >>
    /\ UNCHANGED << cursorVars, sinkVars, outVars >>

\* ------------------------------------------------------------------ the sink
\* The csv.Writer is a bufio.Writer of 4096 bytes on standard output.  A
\* Write has to write the buffer out when the record does not fit in what is
\* left of it: never for the empty record on an empty buffer (one byte), at
\* any other time depending on the bytes, which the model does not count.
WritesOut(rec) == ~cwErr /\ (cwBuf # <<>> \/ rec # <<>>)

\* What a Write of rec on the csv.Writer can answer: it fails when the
\* buffer has to be written out and standard output refuses it; once the
\* writer holds an error every later Write fails (bufio keeps the first
\* error).
WriteOutcomes(rec) ==
    IF cwErr THEN {FALSE}
    ELSE IF WritesOut(rec) THEN BOOLEAN
         ELSE {TRUE}

\* How many of the buffered records a Write has put on standard output (at
\* the granularity of records).  A Write that succeeds has written out none
\* of them or all of them; a Write that fails has written out any number of
\* them before standard output refused the rest (a short write); a Write on
\* a writer that holds an error writes nothing.
SpillOutcomes(ok) ==
    IF cwErr THEN {0}
    ELSE IF ok THEN {0, Len(cwBuf)}
         ELSE 0..Len(cwBuf)

\* q.cw.Write(rec): the call is logged with its outcome.  An accepted record
\* waits in the writer's buffer for the flush; the first spill of the
\* buffered records go to standard output.
CwWrite(kind, rec, ok, spill) ==
    /\ sink' = Append(sink, [kind |-> kind, rs |-> rsIdx, rec |-> rec, ok |-> ok])
    /\ cwErr' = (cwErr \/ ~ok)
    /\ cwBuf' = SubSeq(cwBuf, spill + 1, Len(cwBuf)) \o (IF ok THEN << rec >> ELSE <<>>)
    /\ stdoutBatch' = stdoutBatch \o SubSeq(cwBuf, 1, spill)

\* A step that writes the buffer out finds standard output broken: the
\* process is gone before the Write or the Flush returns.
ExitSigPipe ==
    /\ pc' = "exit"
    /\ exitCode' = SigPipeStatus
    /\ fatal' = "sigpipe"

\* The record the step at pc hands to the writer.
RecordAt(p) ==
    CASE p = "sep" -> <<>>
      [] p = "header" -> writeHeader(colTypes)
      [] p = "write" -> FormatRow(colTypes, lastcols, formatted, nullString, 1).formatted

\* A step that writes the buffer out finds standard output broken: the
\* process is gone before the Write or the Flush returns.
BrokenPipe ==
    /\ \/ pc \in {"sep", "header"} /\ WritesOut(RecordAt(pc))
       \/ /\ pc = "write"
          /\ FormatRow(colTypes, lastcols, formatted, nullString, 1).ok
          /\ WritesOut(RecordAt(pc))
       \/ pc = "flush" /\ ~cwErr /\ cwBuf # <<>>
    /\ ExitSigPipe
    /\ UNCHANGED << db, nullString, nRead, text, pending, batchSrc, goSeen, submitted,
                    lastText, err >>
    /\ UNCHANGED << cursorVars, sinkVars, outVars >>

\* ------------------------------------------------------------------ execQuery
\* Where main goes on after execQuery without the flush (a slip that reports first).
AfterExecQueryNoFlush == "report"
\* main: the statement after err = q.execQuery(...) is cw.Flush().
AfterExecQuery == "flush"

\* execQuery returns e to main.
Return(e) ==
    /\ err' = e
    /\ failures' = failures + (IF e.kind = "nil" THEN 0 ELSE 1)
    /\ pc' = AfterExecQuery

\* execQuery: q.c.QueryContext(ctx, text) under the per-batch deadline.
Query ==
    /\ pc = "query"
    /\ submitted' = submitted + 1
    /\ lastText' = text
    /\ \/ /\ Return(Error("exec", 0))
          /\ timedOut' \in BOOLEAN
          /\ UNCHANGED hitEOF
          /\ UNCHANGED << resp, rows, rsIdx >>
       \/ /\ \E i \in 1..Len(Responses) : resp' = Responses[i]
          /\ rows' = "open"
          /\ rsIdx' = 1
          /\ pc' = "sep"
          /\ UNCHANGED << err, failures, timedOut, hitEOF >>
    /\ UNCHANGED << exitCode, fatal, db, nullString, nRead, text, pending, batchSrc, goSeen >>
    /\ UNCHANGED << rowsErr, colTypes, rsCols, lastcols, rowCount, formatted >>
    /\ UNCHANGED << sinkVars, stdoutPrev, stderrN, rowsQueried, flushed >>

\* execQuery, label nextResultSet: q.cw.Write(nil); the result is dropped.
Separator ==
    /\ pc = "sep"
    /\ \E ok \in WriteOutcomes(<<>>) : \E spill \in SpillOutcomes(ok) :
          CwWrite("sep", <<>>, ok, spill)
    /\ pc' = "cols"
    /\ UNCHANGED << exitCode, fatal, db, nullString, nRead, text, pending, batchSrc, goSeen,
                    submitted, lastText, err >>
    /\ UNCHANGED << cursorVars, outVars >>

\* The column test that runs the streamer for every result set (a slip).
HasColumnsAlways(cols) == Len(cols) >= 0
\* execQuery: len(colTypes) > 0
HasColumns(cols) == Len(cols) > 0

\* execQuery: rows.ColumnTypes(), which fails on a closed cursor, and the
\* choice between writeResultSet and the next result set.
ColumnTypes ==
    /\ pc = "cols"
    /\ IF rows # "open"
       THEN /\ Return(Error("schema", 0))
            /\ UNCHANGED << colTypes, rsCols, formatted, rowCount >>
       ELSE /\ colTypes' = Head(resp).cols
            /\ rsCols' = Append(rsCols, Len(colTypes'))
            /\ IF HasColumns(colTypes')
               THEN pc' = "header"
               ELSE pc' = "nextrs"
            /\ UNCHANGED << err, failures, formatted, rowCount >>
    /\ UNCHANGED << exitCode, fatal, db, nullString, nRead, text, pending, batchSrc, goSeen,
                    submitted, lastText >>
    /\ UNCHANGED << resp, rows, rowsErr, timedOut, hitEOF, rsIdx, lastcols >>
    /\ UNCHANGED << sinkVars, stdoutPrev, stderrN, rowsQueried, flushed >>

\* writeResultSet: the header record, then the row buffer is made.
HeaderRecord ==
    /\ pc = "header"
    /\ \E ok \in WriteOutcomes(writeHeader(colTypes)) : \E spill \in SpillOutcomes(ok) :
          /\ CwWrite("header", writeHeader(colTypes), ok, spill)
          /\ IF ok
             THEN /\ pc' = "next"
                  /\ formatted' = [i \in 1..Len(colTypes) |-> <<>>]
                  /\ rowCount' = 0
                  /\ UNCHANGED << err, failures >>
             ELSE /\ Return(Error("header", 0))
                  /\ UNCHANGED << formatted, rowCount >>
    /\ UNCHANGED << exitCode, fatal, db, nullString, nRead, text, pending, batchSrc, goSeen,
                    submitted, lastText >>
    /\ UNCHANGED << resp, rows, rowsErr, timedOut, hitEOF, rsIdx, colTypes, rsCols, lastcols >>
    /\ UNCHANGED << stdoutPrev, stderrN, rowsQueried, flushed >>

\* writeResultSet: rows.Next().  A cursor that holds the context error or
\* is closed answers false and stays as it is; an open one
\* delivers the next row, or ends the result set (and closes itself when no
\* result set follows), or fails, which closes it and leaves the error on it.
\* The deadline can pass while a call that closes the cursor is under way:
\* the call sets hitEOF all the same, and rows.Err() then does not report
\* the context error.
Next_ ==
    /\ pc = "next"
    /\ IF timedOut \/ rows # "open"
       THEN /\ pc' = "nextrs"
            /\ UNCHANGED << resp, rows, rowsErr, timedOut, hitEOF, lastcols >>
       ELSE \/ /\ Head(resp).rows # <<>>
               /\ lastcols' = Head(Head(resp).rows)
               /\ resp' = << [Head(resp) EXCEPT !.rows = Tail(@)] >> \o Tail(resp)
               /\ pc' = "scan"
               /\ UNCHANGED << rows, rowsErr, timedOut, hitEOF >>
            \/ /\ Head(resp).rows = <<>>
               /\ rows' = IF Len(resp) > 1 THEN "open" ELSE "closed"
               /\ hitEOF' = (Len(resp) = 1)
               /\ timedOut' \in (IF Len(resp) = 1 THEN {timedOut, TRUE} ELSE {timedOut})
               /\ pc' = "nextrs"
               /\ UNCHANGED << resp, rowsErr, lastcols >>
            \/ /\ rows' = "closed"
               /\ rowsErr' = TRUE
               /\ hitEOF' = TRUE
               /\ timedOut' \in {timedOut, TRUE}
               /\ pc' = "nextrs"
               /\ UNCHANGED << resp, lastcols >>
    /\ UNCHANGED << exitCode, fatal, db, nullString, nRead, text, pending, batchSrc, goSeen,
                    submitted, lastText, err >>
    /\ UNCHANGED << rsIdx, colTypes, rsCols, rowCount, formatted >>
    /\ UNCHANGED << sinkVars, outVars >>

\* writeResultSet, the loop body: rows.Scan, which fails on a closed cursor
\* and otherwise hands the row over.
ScanRow ==
    /\ pc = "scan"
    /\ IF rows # "open"
       THEN Return(Error("scan", RowIndex(rowCount)))
       ELSE pc' = "write" /\ UNCHANGED << err, failures >>
    /\ UNCHANGED << exitCode, fatal, db, nullString, nRead, text, pending, batchSrc, goSeen,
                    submitted, lastText >>
    /\ UNCHANGED << cursorVars, sinkVars, stdoutPrev, stderrN, rowsQueried, flushed >>

\* writeResultSet, the loop body after the scan: the format loop, the data
\* record, rowCount++.  Nothing here asks the cursor, so the step runs the
\* same whether the deadline has passed since the scan or not.
WriteRow ==
    /\ pc = "write"
    /\ LET r == FormatRow(colTypes, lastcols, formatted, nullString, 1)
       IN  /\ formatted' = r.formatted
           /\ IF ~r.ok
              THEN /\ Return(Error("uuid", RowIndex(rowCount)))
                   /\ UNCHANGED << rowCount, sinkVars >>
              ELSE \E ok \in WriteOutcomes(r.formatted) : \E spill \in SpillOutcomes(ok) :
                      /\ CwWrite("row", r.formatted, ok, spill)
                      /\ IF ok
                         THEN /\ rowCount' = rowCount + 1
                              /\ pc' = "next"
                              /\ UNCHANGED << err, failures >>
                         ELSE /\ Return(Error("rowwrite", RowIndex(rowCount)))
                              /\ UNCHANGED rowCount
    /\ UNCHANGED << exitCode, fatal, db, nullString, nRead, text, pending, batchSrc, goSeen,
                    submitted, lastText >>
    /\ UNCHANGED << resp, rows, rowsErr, timedOut, hitEOF, rsIdx, colTypes, rsCols, lastcols >>
    /\ UNCHANGED << stdoutPrev, stderrN, rowsQueried, flushed >>

\* The jump that re-enters below the separator write (a slip).
NextResultSetTargetNoSeparator == "cols"
\* execQuery: goto nextResultSet, the label above the separator write.
NextResultSetTarget == "sep"

\* execQuery: rows.NextResultSet().  A closed cursor answers false; an open
\* one advances, or finds no further result set and closes itself, or fails,
\* which closes it and leaves the error on it.
NextResultSet ==
    /\ pc = "nextrs"
    /\ IF rows # "open"
       THEN /\ pc' = "close"
            /\ UNCHANGED << resp, rows, rowsErr, rsIdx >>
       ELSE \/ /\ Len(resp) > 1
               /\ resp' = Tail(resp)
               /\ rsIdx' = rsIdx + 1
               /\ pc' = NextResultSetTarget
               /\ UNCHANGED << rows, rowsErr >>
            \/ /\ Len(resp) = 1
               /\ rows' = "closed"
               /\ pc' = "close"
               /\ UNCHANGED << resp, rowsErr, rsIdx >>
            \/ /\ rows' = "closed"
               /\ rowsErr' = TRUE
               /\ pc' = "close"
               /\ UNCHANGED << resp, rsIdx >>
    /\ UNCHANGED << exitCode, fatal, db, nullString, nRead, text, pending, batchSrc, goSeen,
                    submitted, lastText, err >>
    /\ UNCHANGED << timedOut, hitEOF, colTypes, rsCols, lastcols, rowCount, formatted >>
    /\ UNCHANGED << sinkVars, outVars >>

\* The end of execQuery without the rows.Err() check (a slip).
CloseResultNoErrCheck(closeFailed, cursorErr) ==
    IF closeFailed THEN Error("close", 0) ELSE NoError
\* execQuery: the rows.Close() check, then the rows.Err() check.
CloseResult(closeFailed, cursorErr) ==
    IF closeFailed THEN Error("close", 0)
    ELSE IF cursorErr THEN Error("result", 0)
         ELSE NoError

\* execQuery: rows.Close(), rows.Err(), return.  Close answers nil on a
\* cursor that is closed already.
CloseRows ==
    /\ pc = "close"
    /\ rows' = "closed"
    /\ \E closeFailed \in (IF rows = "open" THEN BOOLEAN ELSE {FALSE}) :
          Return(CloseResult(closeFailed, rowsErr))
    /\ UNCHANGED << exitCode, fatal, db, nullString, nRead, text, pending, batchSrc, goSeen,
                    submitted, lastText >>
    /\ UNCHANGED << resp, rowsErr, timedOut, hitEOF, rsIdx, colTypes, rsCols, lastcols, rowCount,
                    formatted >>
    /\ UNCHANGED << sinkVars, stdoutPrev, stderrN, rowsQueried, flushed >>

\* The per-batch deadline passes before rows.Err() is asked: the goroutine
\* of database/sql that watches the context leaves the context error on the
\* cursor.  From then on rows.Next() answers false, and rows.Err() reports
\* the error unless rows.Next() was the one that closed the cursor
\* (hitEOF); a deadline that passes after that changes nothing execQuery
\* can see.  The cursor is not closed yet: ColumnTypes(), Scan(),
\* NextResultSet() and Close() still find it open.  After NextResultSet()
\* or Close() has closed the cursor the goroutine may still find the
\* deadline passed and leave the error.
Deadline ==
    /\ pc \in {"sep", "cols", "header", "next", "scan", "write", "nextrs", "close"}
    /\ ~timedOut
    /\ \/ rows = "open"
       \/ pc = "close" /\ rows = "closed" /\ ~hitEOF
    /\ rowsErr' = TRUE
    /\ timedOut' = TRUE
    /\ UNCHANGED << pc, exitCode, fatal, db, nullString, nRead, text, pending, batchSrc,
                    goSeen, submitted, lastText, err >>
    /\ UNCHANGED << resp, rows, hitEOF, rsIdx, colTypes, rsCols, lastcols, rowCount,
                    formatted >>
    /\ UNCHANGED << sinkVars, outVars >>

\* The goroutine that left the context error closes the cursor, some time
\* after; what the driver answers to that close is dropped.
DeadlineCloses ==
    /\ pc \in {"sep", "cols", "header", "next", "scan", "write", "nextrs", "close"}
    /\ timedOut
    /\ rows = "open"
    /\ rows' = "closed"
    /\ UNCHANGED << pc, exitCode, fatal, db, nullString, nRead, text, pending, batchSrc,
                    goSeen, submitted, lastText, err >>
    /\ UNCHANGED << resp, rowsErr, timedOut, hitEOF, rsIdx, colTypes, rsCols, lastcols,
                    rowCount, formatted >>
    /\ UNCHANGED << sinkVars, outVars >>

\* execQuery's deferred cancel() has run: a cursor left open by an early
\* return is closed by database/sql some time after the return.
CancelClosesRows ==
    /\ pc \in {"flush", "report"}
    /\ rows = "open"
    /\ rows' = "closed"
    /\ UNCHANGED << pc, exitCode, fatal, db, nullString, nRead, text, pending, batchSrc,
                    goSeen, submitted, lastText, err >>
    /\ UNCHANGED << resp, rowsErr, timedOut, hitEOF, rsIdx, colTypes, rsCols, lastcols, rowCount,
                    formatted >>
    /\ UNCHANGED << sinkVars, outVars >>

\* ------------------------------------------------------------------ main: after the batch
\* What the write-out of cw.Flush() can answer: there is none when the
\* writer holds an error or the buffer is empty.
FlushOutcomes ==
    IF cwErr THEN {FALSE}
    ELSE IF cwBuf = <<>> THEN {TRUE}
         ELSE BOOLEAN

\* main: cw.Flush().  The accepted records go to standard output unless the
\* writer holds an error or this write fails, and then any number of them
\* short of all has gone out; Flush returns nothing.
Flush ==
    /\ pc = "flush"
    /\ flushed' = TRUE
    /\ \E ok \in FlushOutcomes :
          IF ok
          THEN /\ stdoutBatch' = stdoutBatch \o cwBuf
               /\ cwBuf' = <<>>
               /\ UNCHANGED cwErr
          ELSE IF cwErr
               THEN UNCHANGED << cwErr, cwBuf, stdoutBatch >>
               ELSE \E n \in 0..(Len(cwBuf) - 1) :
                       /\ cwErr' = TRUE
                       /\ stdoutBatch' = stdoutBatch \o SubSeq(cwBuf, 1, n)
                       /\ cwBuf' = SubSeq(cwBuf, n + 1, Len(cwBuf))
    /\ pc' = "report"
    /\ UNCHANGED << exitCode, fatal, db, nullString, nRead, text, pending, batchSrc, goSeen,
                    submitted, lastText, err, sink >>
    /\ UNCHANGED << cursorVars, stdoutPrev, stderrN, rowsQueried, failures >>

\* Where the loop goes after a batch if a failed batch ended the process (a slip).
AfterReportExitOnError(e) == IF e.kind = "nil" THEN "read" ELSE "exit"
\* main: after the error report the loop goes on with the next line.
AfterReport(e) == "read"

\* main: the error report on standard error (one report for a failed batch,
\* in either of its two layouts), then text.Reset(); the batch's locals go
\* out of scope and err is not read again before it is assigned.  When
\* standard error is a broken pipe the report ends the process by SIGPIPE.
Report ==
    /\ pc = "report"
    /\ \/ /\ stderrN' = IF err.kind # "nil" THEN stderrN + 1 ELSE stderrN
          /\ text' = <<>>
          /\ stdoutPrev' = (stdoutPrev \/ stdoutBatch # <<>>)
          /\ err' = NoError
          /\ resp' = <<>>
          /\ rows' = "none"
          /\ rowsErr' = FALSE
          /\ timedOut' = FALSE
          /\ hitEOF' = FALSE
          /\ rsIdx' = 0
          /\ colTypes' = <<>>
          /\ rsCols' = <<>>
          /\ lastcols' = <<>>
          /\ rowCount' = 0
          /\ formatted' = <<>>
          /\ sink' = <<>>
          /\ cwErr' = FALSE
          /\ cwBuf' = <<>>
          /\ flushed' = FALSE
          /\ stdoutBatch' = <<>>
          /\ pc' = AfterReport(err)
          /\ UNCHANGED << exitCode, fatal, db, nullString, nRead, pending, batchSrc, goSeen,
                          submitted, lastText, failures, rowsQueried >>
       \/ /\ err.kind # "nil"
          /\ ExitSigPipe
          /\ UNCHANGED << db, nullString, nRead, text, pending, batchSrc, goSeen, submitted,
                          lastText, err >>
          /\ UNCHANGED << cursorVars, sinkVars, outVars >>

\* ------------------------------------------------------------------ specification
Next ==
    \/ Configure
    \/ Open
    \/ Ping
    \/ ReadText
    \/ ReadGo
    \/ ReadEOF
    \/ ReadError
    \/ Query
    \/ Separator
    \/ ColumnTypes
    \/ HeaderRecord
    \/ Next_
    \/ ScanRow
    \/ WriteRow
    \/ NextResultSet
    \/ CloseRows
    \/ Deadline
    \/ DeadlineCloses
    \/ CancelClosesRows
    \/ BrokenPipe
    \/ Flush
    \/ Report

Spec == Init /\ [][Next]_vars

\* ------------------------------------------------------------------ writeResultSet on its inputs
\* Rows a result set holds at most when writeResultSet is checked on its own.
MaxRows == 2

\* The sequences over S of length 1..n.
SeqsUpTo(S, n) == UNION {[1..k -> S] : k \in 1..n}

\* The type tags writeResultSet and writeHeader tell apart, and two more.
TypeTags ==
    { TypeUniqueIdentifier, TypeDecimal, TypeMoney, TypeBit, TypeInt, TypeVarBinary,
      TypeNVarChar }

\* What rows.Scan can decode for a column of the given type: nil, or the Go
\* type the driver uses for it.
ValuesOf(typ) ==
    CASE typ = TypeUniqueIdentifier ->
            { NullVal, Val("bytes", Uuid1), Val("bytes", <<1, 2, 3>>) }
      [] typ = TypeDecimal ->
            { NullVal, Val("bytes", <<49, 46, 53, 48>>), Val("bytes", <<50>>) }
      [] typ = TypeMoney ->
            { NullVal, Val("bytes", <<57, 46, 57, 57>>), Val("bytes", <<50>>) }
      [] typ = TypeBit -> { NullVal, Val("bool", TRUE), Val("bool", FALSE) }
      [] typ = TypeInt -> { NullVal, Val("int", 42), Val("int", 0 - 7) }
      [] typ = TypeVarBinary -> { NullVal, Val("bytes", <<222, 173>>), Val("bytes", <<>>) }
      [] typ = TypeNVarChar -> { NullVal, Val("string", <<"h", "i">>), Val("string", <<>>) }

\* Result sets of one column, for every type tag and every row sequence.
OneColumnSets ==
    UNION { { ResultSet(<< Col(<<"c">>, typ, FALSE, FALSE, FALSE, 0, FALSE, 0, 0) >>, rws) :
                 rws \in SeqsUpTo({ << v >> : v \in ValuesOf(typ) }, MaxRows) } :
            typ \in TypeTags }

\* A result set with one column of each type that has a rule of its own.
ColsF ==
    << Col(<<"u">>, TypeUniqueIdentifier, TRUE, TRUE, FALSE, 0, FALSE, 0, 0),
       Col(<<"d">>, TypeDecimal, TRUE, TRUE, FALSE, 0, TRUE, 10, 2),
       Col(<<"m">>, TypeMoney, TRUE, TRUE, FALSE, 0, TRUE, 19, 4),
       Col(<<"b">>, TypeBit, TRUE, TRUE, FALSE, 0, FALSE, 0, 0) >>
RowF0 == << NullVal, NullVal, NullVal, NullVal >>
RowF1 ==
    << Val("bytes", Uuid1), Val("bytes", <<49, 46, 53, 48>>),
       Val("bytes", <<57, 46, 57, 57>>), Val("bool", TRUE) >>
FourColumnSets == { ResultSet(ColsF, rws) : rws \in SeqsUpTo({RowF0, RowF1}, MaxRows) }

\* Column descriptions for the header: every combination of a known or
\* unknown nullability, a length (plain or one of the two markers) or none,
\* and a decimal size or none (sql.ColumnType lets a driver report both a
\* length and a decimal size).
HeaderCols ==
    { Col(<<"a", "]", "b">>, TypeNVarChar, hn, hn /\ nl, len # 0, len, hd,
          IF hd THEN 10 ELSE 0, IF hd THEN 2 ELSE 0) :
         hn \in BOOLEAN, nl \in BOOLEAN, hd \in BOOLEAN,
         len \in {0, 50, MaxLengthVarBinary, MaxLengthNVarChar} }
\* A column whose driver reports a length of zero.
ColZeroLength == Col(<<>>, TypeVarBinary, FALSE, FALSE, TRUE, 0, TRUE, 10, 2)
HeaderSets ==
    { ResultSet(<< c >>, <<>>) : c \in HeaderCols \cup {ColZeroLength} }
    \cup { ResultSet(<< c1, c2 >>, <<>>) :
              c1 \in {ColZeroLength, ColsF[2]}, c2 \in {ColsC[1], ColsB[2], ColsF[4]} }

\* The result sets writeResultSet is checked on.
ResultSetPool == OneColumnSets \cup FourColumnSets \cup HeaderSets

\* The state in which execQuery enters writeResultSet for the first result
\* set of the first batch (a GO line on an empty buffer): the separator has
\* been written, the column list fetched.
InitResultSet ==
    /\ pc = "header"
    /\ exitCode = -1
    /\ fatal = "none"
    /\ db = "open"
    /\ nullString \in {NullStringPool[i] : i \in 1..Len(NullStringPool)}
    /\ nRead = 1
    /\ text = <<>>
    /\ pending = <<>>
    /\ batchSrc = <<>>
    /\ goSeen = 1
    /\ submitted = 1
    /\ lastText = <<>>
    /\ \E rs \in ResultSetPool :
          /\ resp = << rs >>
          /\ colTypes = rs.cols
          /\ rsCols = << Len(rs.cols) >>
    /\ rows = "open"
    /\ rowsErr = FALSE
    /\ timedOut = FALSE
    /\ hitEOF = FALSE
    /\ rsIdx = 1
    /\ lastcols = <<>>
    /\ rowCount = 0
    /\ formatted = <<>>
    /\ sink = << [kind |-> "sep", rs |-> 1, rec |-> <<>>, ok |-> TRUE] >>
    /\ cwErr = FALSE
    /\ cwBuf = << <<>> >>
    /\ flushed = FALSE
    /\ stdoutBatch = <<>>
    /\ stdoutPrev = FALSE
    /\ stderrN = 0
    /\ rowsQueried = -1
    /\ err = NoError
    /\ failures = 0

\* writeResultSet from its entry to its return.
NextResultSetRun ==
    \/ HeaderRecord
    \/ Next_
    \/ ScanRow
    \/ WriteRow
    \/ Deadline
    \/ DeadlineCloses
    \/ BrokenPipe

SpecResultSet == InitResultSet /\ [][NextResultSetRun]_vars

\* ------------------------------------------------------------------ the variant that reports the row count
\* src/unnamed/part_000 is the same program with one result set per batch
\* and a row count: execQuery has no separator and no result set loop, the
\* row loop runs in execQuery on the field q.rowCount, and main prints the
\* count of a batch that succeeded.  Its start-up, its text lines, its
\* header write, its row loop body, its close and its flush read as in
\* src/main.go and are the actions above (after an accepted Write its row
\* loop also asks cw.Error(), which answers nil then); its other steps
\* follow.

\* The count printed as the error messages print the row index (a slip).
RowsQueriedPlusOne(n) == n + 1
\* main (part_000): the argument of "%d row(s) queried", q.rowCount.
RowsQueried(n) == n

\* main (part_000), a terminator line: a line feed goes to standard output
\* (its result is dropped; a broken pipe ends the process), then the
\* csv.Writer and the queryCSV are made and execQuery is entered.
Part000_ReadGo ==
    /\ pc = "read"
    /\ nRead < MaxLines
    /\ \E i \in 1..Len(LinePool) :
          /\ IsGoLine(LinePool[i])
          /\ goSeen' = goSeen + GoCount(LinePool[i])
    /\ nRead' = nRead + 1
    /\ batchSrc' = pending
    /\ pending' = <<>>
    /\ \/ /\ \E ok \in BOOLEAN : stdoutBatch' = IF ok THEN << <<>> >> ELSE <<>>
          /\ pc' = "query"
          /\ UNCHANGED << exitCode, fatal >>
       \/ /\ ExitSigPipe
          /\ UNCHANGED stdoutBatch
    /\ UNCHANGED << db, nullString, text, submitted, lastText, err >>
    /\ UNCHANGED << cursorVars, sink, cwErr, cwBuf, outVars >>

\* execQuery (part_000): q.c.QueryContext(ctx, text) under the per-batch deadline.
Part000_Query ==
    /\ pc = "query"
    /\ submitted' = submitted + 1
    /\ lastText' = text
    /\ \/ /\ Return(Error("exec", 0))
          /\ timedOut' \in BOOLEAN
          /\ UNCHANGED hitEOF
          /\ UNCHANGED << resp, rows, rsIdx >>
       \/ /\ \E i \in 1..Len(Responses) : resp' = Responses[i]
          /\ rows' = "open"
          /\ rsIdx' = 1
          /\ pc' = "cols"
          /\ UNCHANGED << err, failures, timedOut, hitEOF >>
    /\ UNCHANGED << exitCode, fatal, db, nullString, nRead, text, pending, batchSrc, goSeen >>
    /\ UNCHANGED << rowsErr, colTypes, rsCols, lastcols, rowCount, formatted >>
    /\ UNCHANGED << sinkVars, stdoutPrev, stderrN, rowsQueried, flushed >>

\* execQuery (part_000): rows.ColumnTypes(), which fails on a closed cursor;
\* the header is written whatever the number of columns.
Part000_ColumnTypes ==
    /\ pc = "cols"
    /\ IF rows # "open"
       THEN /\ Return(Error("schema", 0))
            /\ UNCHANGED << colTypes, rsCols >>
       ELSE /\ colTypes' = Head(resp).cols
            /\ rsCols' = Append(rsCols, Len(colTypes'))
            /\ pc' = "header"
            /\ UNCHANGED << err, failures >>
    /\ UNCHANGED << exitCode, fatal, db, nullString, nRead, text, pending, batchSrc, goSeen,
                    submitted, lastText >>
    /\ UNCHANGED << resp, rows, rowsErr, timedOut, hitEOF, rsIdx, lastcols, formatted, rowCount >>
    /\ UNCHANGED << sinkVars, stdoutPrev, stderrN, rowsQueried, flushed >>

\* execQuery (part_000): rows.Next() in the for statement; when it answers
\* false the loop ends and rows.Close() follows.
Part000_Next ==
    /\ pc = "next"
    /\ IF timedOut \/ rows # "open"
       THEN /\ pc' = "close"
            /\ UNCHANGED << resp, rows, rowsErr, timedOut, hitEOF, lastcols >>
       ELSE \/ /\ Head(resp).rows # <<>>
               /\ lastcols' = Head(Head(resp).rows)
               /\ resp' = << [Head(resp) EXCEPT !.rows = Tail(@)] >> \o Tail(resp)
               /\ pc' = "scan"
               /\ UNCHANGED << rows, rowsErr, timedOut, hitEOF >>
            \/ /\ Head(resp).rows = <<>>
               /\ rows' = IF Len(resp) > 1 THEN "open" ELSE "closed"
               /\ hitEOF' = (Len(resp) = 1)
               /\ timedOut' \in (IF Len(resp) = 1 THEN {timedOut, TRUE} ELSE {timedOut})
               /\ pc' = "close"
               /\ UNCHANGED << resp, rowsErr, lastcols >>
            \/ /\ rows' = "closed"
               /\ rowsErr' = TRUE
               /\ hitEOF' = TRUE
               /\ timedOut' \in {timedOut, TRUE}
               /\ pc' = "close"
               /\ UNCHANGED << resp, lastcols >>
    /\ UNCHANGED << exitCode, fatal, db, nullString, nRead, text, pending, batchSrc, goSeen,
                    submitted, lastText, err >>
    /\ UNCHANGED << rsIdx, colTypes, rsCols, rowCount, formatted >>
    /\ UNCHANGED << sinkVars, outVars >>

\* main (part_000): the error report, or for a batch that succeeded the row
\* count, on standard error; then text.Reset().  When standard error is a
\* broken pipe the write of either ends the process by SIGPIPE.
Part000_Report ==
    /\ pc = "report"
    /\ \/ /\ stderrN' = IF err.kind # "nil" THEN stderrN + 1 ELSE stderrN
          /\ rowsQueried' = IF err.kind = "nil" THEN RowsQueried(rowCount) ELSE rowsQueried
          /\ text' = <<>>
          /\ stdoutPrev' = (stdoutPrev \/ stdoutBatch # <<>>)
          /\ err' = NoError
          /\ resp' = <<>>
          /\ rows' = "none"
          /\ rowsErr' = FALSE
          /\ timedOut' = FALSE
          /\ hitEOF' = FALSE
          /\ rsIdx' = 0
          /\ colTypes' = <<>>
          /\ rsCols' = <<>>
          /\ lastcols' = <<>>
          /\ rowCount' = 0
          /\ formatted' = <<>>
          /\ sink' = <<>>
          /\ cwErr' = FALSE
          /\ cwBuf' = <<>>
          /\ flushed' = FALSE
          /\ stdoutBatch' = <<>>
          /\ pc' = "read"
          /\ UNCHANGED << exitCode, fatal, db, nullString, nRead, pending, batchSrc, goSeen,
                          submitted, lastText, failures >>
       \/ /\ TRUE
          /\ ExitSigPipe
          /\ UNCHANGED << db, nullString, nRead, text, pending, batchSrc, goSeen, submitted,
                          lastText, err >>
          /\ UNCHANGED << cursorVars, sinkVars, outVars >>

NextPart000 ==
    \/ Configure
    \/ Open
    \/ Ping
    \/ ReadText
    \/ Part000_ReadGo
    \/ ReadEOF
    \/ ReadError
    \/ Part000_Query
    \/ Part000_ColumnTypes
    \/ HeaderRecord
    \/ Part000_Next
    \/ ScanRow
    \/ WriteRow
    \/ CloseRows
    \/ Deadline
    \/ DeadlineCloses
    \/ CancelClosesRows
    \/ BrokenPipe
    \/ Flush
    \/ Part000_Report

SpecPart000 == Init /\ [][NextPart000]_vars

\* ------------------------------------------------------------------ reading the sink log
\* The positions of the log that hold a call of the given kind for result set k.
CallsOf(kind, k) == {i \in 1..Len(sink) : sink[i].kind = kind /\ sink[i].rs = k}
\* The separator calls among the first i calls.
SeparatorsUpTo(i) == Cardinality({j \in 1..i : sink[j].kind = "sep"})
\* The records the writer accepted, in call order.
RECURSIVE AcceptedRecords(_)
AcceptedRecords(log) ==
    IF log = <<>> THEN <<>>
    ELSE (IF Head(log).ok THEN << Head(log).rec >> ELSE <<>>) \o AcceptedRecords(Tail(log))
\* execQuery has returned to main and the batch is not yet reported.
Returned == pc \in {"flush", "report"}
\* execQuery is running on a cursor, or has returned from a run on one.
Submitted == rows # "none"
\* The process was ended by the signal of a broken standard output, in the
\* middle of the step it stood at.
Killed == pc = "exit" /\ fatal = "sigpipe"

\* ------------------------------------------------------------------ C1
\* C1: in a batch whose submission succeeded, every result set discovered
\* has exactly one separator call, made before every other call for that
\* result set and after every call for the one before: the calls made up to
\* any point hold as many separators as the result set the call belongs to,
\* the separators are the empty records, and when execQuery returns without
\* error after discovering n result sets the log holds exactly n separators
\* (a process killed at the separator write has not made it).
C1_SeparatorFraming ==
    /\ \A i \in 1..Len(sink) :
          /\ SeparatorsUpTo(i) = sink[i].rs
          /\ (sink[i].kind = "sep") <=> (sink[i].rec = <<>>)
    /\ ~Submitted => sink = <<>>
    /\ Submitted /\ pc # "sep" /\ ~Killed => SeparatorsUpTo(Len(sink)) = rsIdx
    /\ pc = "sep" => SeparatorsUpTo(Len(sink)) = rsIdx - 1

\* A batch of three result sets, the first and the last with rows, has
\* returned without error.
C1_Witness ==
    /\ Returned
    /\ err.kind = "nil"
    /\ rsIdx = 3
    /\ CallsOf("row", 3) # {}
    /\ CallsOf("header", 1) # {}

\* ------------------------------------------------------------------ C2
\* C2: a discovered result set without columns gets no call but its
\* separator; one with columns gets exactly one header call, after its
\* separator and before each of its row calls (none yet while the header
\* write is still ahead, at most one in a process killed on the way).
C2_HeaderPerResultSet ==
    \A k \in 1..Len(rsCols) :
       IF rsCols[k] = 0
       THEN /\ CallsOf("header", k) = {}
            /\ CallsOf("row", k) = {}
            /\ Cardinality(CallsOf("sep", k)) = 1
       ELSE /\ IF Killed
               THEN Cardinality(CallsOf("header", k)) <= 1
               ELSE Cardinality(CallsOf("header", k)) =
                       (IF k = rsIdx /\ pc = "header" THEN 0 ELSE 1)
            /\ \A h \in CallsOf("header", k) :
                  /\ \A p \in CallsOf("sep", k) : p < h
                  /\ \A r \in CallsOf("row", k) : h < r
            /\ CallsOf("row", k) # {} => CallsOf("header", k) # {}

\* A batch has returned without error after a result set without columns
\* and one with columns and rows.
C2_Witness ==
    /\ Returned
    /\ err.kind = "nil"
    /\ \E k \in 1..Len(rsCols) : rsCols[k] = 0
    /\ \E k \in 1..Len(rsCols) : rsCols[k] > 0 /\ CallsOf("row", k) # {}

\* ------------------------------------------------------------------ C3
\* The sites of writeResultSet that fail on decoding or formatting a row.
RowFailure(e) == e.kind \in {"scan", "uuid"}

\* C3: when execQuery has returned because the scan or the formatting of a
\* row failed, the error carries the number of row calls made for that
\* result set plus one, all of them accepted; every record accepted so far
\* is still held (on standard output or in the writer), the failing step
\* made no call, and no call is made afterwards for the batch.
C3_RowErrorIndex ==
    /\ [](/\ Returned /\ RowFailure(err) =>
                /\ err.row = Cardinality(CallsOf("row", rsIdx)) + 1
                /\ \A i \in CallsOf("row", rsIdx) : sink[i].ok
          /\ AcceptedRecords(sink) = stdoutBatch \o cwBuf)
    /\ [][/\ RowFailure(err') /\ ~RowFailure(err) => sink' = sink
          /\ RowFailure(err) /\ pc = "flush" => sink' = sink]_vars

\* The third row of the second result set failed to format after two rows
\* were written.
C3_Witness ==
    /\ pc = "flush"
    /\ err = Error("uuid", 3)
    /\ rsIdx = 2
    /\ Cardinality(CallsOf("row", 2)) = 2
    /\ Len(sink) = 5

\* ------------------------------------------------------------------ C4
\* C4: execQuery never returns success when the cursor holds an error, and a
\* batch that returns success has gone through the close: its cursor is
\* closed.
C4_TrailingErrorReturned ==
    Returned =>
       /\ rowsErr => err.kind # "nil"
       /\ Submitted /\ err.kind = "nil" => rows = "closed"

\* Row iteration ended early on a driver error after a row was written, and
\* execQuery returned the error found on the cursor.
C4_Witness ==
    /\ Returned
    /\ err.kind = "result"
    /\ rowsErr
    /\ CallsOf("row", rsIdx) # {}
    /\ Head(resp).rows # <<>>

\* ------------------------------------------------------------------ C5
\* C5: a batch failure of any kind is reported on standard error (one
\* report per failed execQuery, made when the batch is reported) and does
\* not end the process: the process ends only at the end of input, on a
\* fatal condition of the start-up or of the read, or by the signal of a
\* broken standard output (and then without the report), and every GO line
\* delivered has led to exactly one submission (the one for the line just
\* read is still ahead at "query").
C5_FailureReportedLoopContinues ==
    /\ ~Killed => stderrN = failures - (IF Returned /\ err.kind # "nil" THEN 1 ELSE 0)
    /\ pc = "exit" => (exitCode = 0 \/ fatal # "none")
    /\ submitted = goSeen - (IF pc = "query" THEN 1 ELSE 0)
    /\ pc \in {"start", "open", "ping"} => submitted = 0

\* The third batch is running on a cursor after two batches failed and were
\* reported.
C5_Witness ==
    /\ pc = "sep"
    /\ submitted = 3
    /\ failures = 2
    /\ stderrN = 2

\* ------------------------------------------------------------------ C6
\* The lines of a batch, each followed by CR LF, in order.
RECURSIVE JoinCRLF(_)
JoinCRLF(lines) ==
    IF lines = <<>> THEN <<>>
    ELSE Head(lines) \o <<"\r", "\n">> \o JoinCRLF(Tail(lines))

\* C6: the text of a submission is the lines delivered between the GO line
\* before it (or the start of input) and its own GO line, each followed by
\* CR LF, in input order; between batches the buffer holds exactly the lines
\* delivered since the last GO line, so it was cleared after the submission,
\* failed or not, and no GO line is part of a batch.
C6_BatchText ==
    /\ submitted > 0 /\ pc # "query" => lastText = JoinCRLF(batchSrc)
    /\ pc = "query" => text = JoinCRLF(batchSrc)
    /\ pc = "read" => text = JoinCRLF(pending)
    /\ \A i \in 1..Len(pending) : GoCount(pending[i]) = 0
    /\ \A i \in 1..Len(batchSrc) : GoCount(batchSrc[i]) = 0

\* A batch of two lines failed, was reported and the buffer is empty again.
C6_Witness ==
    /\ pc = "read"
    /\ submitted = 1
    /\ failures = 1
    /\ stderrN = 1
    /\ batchSrc = << LineSelect, LineGoX >>
    /\ text = <<>>

\* ------------------------------------------------------------------ C7
\* C7: between batches and at the end of the process the number of
\* submissions equals the number of GO lines delivered (a GO line on an
\* empty buffer submits the empty text), and at the end of input the lines
\* after the last GO line are still in the buffer, never submitted.
C7_BatchCount ==
    /\ pc \in {"read", "exit"} => submitted = goSeen
    /\ pc = "exit" /\ exitCode = 0 => text = JoinCRLF(pending)
    /\ pc = "exit" /\ exitCode = 0 /\ submitted > 0 => lastText = JoinCRLF(batchSrc)
    /\ goSeen = 0 => lastText = <<>> /\ submitted = 0

\* Input ended after two GO lines, the second in lower case on an empty
\* buffer, and one more line that was never submitted.
C7_Witness ==
    /\ pc = "exit"
    /\ exitCode = 0
    /\ goSeen = 2
    /\ submitted = 2
    /\ lastText = <<>>
    /\ pending = << LineGoX >>

\* ------------------------------------------------------------------ C8
\* C8: when main reports a batch, cw.Flush() has run for it, after execQuery
\* returned (with or without an error) and before the report and the next
\* read; nothing the writer accepted is left in its buffer and every
\* accepted record of the batch is on standard output, unless the writer
\* holds a write error (the output stream itself failed).
C8_FlushBeforeReport ==
    /\ pc = "report" =>
          /\ flushed
          /\ stderrN = failures - (IF err.kind # "nil" THEN 1 ELSE 0)
          /\ ~cwErr => cwBuf = <<>> /\ stdoutBatch = AcceptedRecords(sink)
    /\ pc = "read" => cwBuf = <<>> /\ ~flushed
    /\ flushed => pc = "report" \/ Killed

\* A batch failed on its second row; the separator, the header and the
\* first row are on standard output when the failure is about to be reported.
C8_Witness ==
    /\ pc = "report"
    /\ err.kind = "scan"
    /\ err.row = 2
    /\ Len(stdoutBatch) = 3
    /\ stderrN = 0

\* ------------------------------------------------------------------ C9
\* The fatal conditions main reports before os.Exit(1).
FatalConditions == {"config", "open", "ping", "read"}

\* C9 as stated: every exit on a fatal condition has a non-zero status and
\* comes before any record is on standard output.
C9_Original ==
    pc = "exit" /\ fatal \in FatalConditions => exitCode # 0 /\ ~stdoutPrev

\* C9 amended: every exit on a fatal condition has status 1, or the status
\* of a death by SIGPIPE when its report finds standard error broken; a
\* missing connection string, a failed open and a failed connectivity check come
\* before any submission and any output; an input-read failure comes
\* between batches, after the output of the batches already executed.
C9_FatalExit ==
    pc = "exit" /\ fatal \in FatalConditions =>
       /\ exitCode \in {1, SigPipeStatus}
       /\ fatal \in {"config", "open", "ping"} => submitted = 0 /\ ~stdoutPrev
       /\ fatal = "read" => stdoutBatch = <<>> /\ sink = <<>> /\ submitted = goSeen
       /\ stdoutPrev => fatal = "read" /\ submitted > 0

\* The scanner failed after a batch had put records on standard output.
C9_Witness ==
    /\ pc = "exit"
    /\ fatal = "read"
    /\ exitCode = 1
    /\ stdoutPrev

\* ------------------------------------------------------------------ C10
\* C10 as stated: on every exit the handle, once opened, has been closed.
C10_HandleClosedOnExit ==
    pc = "exit" /\ db # "none" => db = "closed"

\* ------------------------------------------------------------------ C11
\* C11 as stated: a Write the sink refuses, whatever record it carries, is
\* the last call of its batch, and execQuery has returned an error at it.
C11_SinkFailureAbandons ==
    \A i \in 1..Len(sink) :
       ~sink[i].ok => i = Len(sink) /\ Returned /\ err.kind # "nil"

\* ------------------------------------------------------------------ C12
\* C12 as stated: once the deadline of a batch has passed, in the
\* submission or at any point of the row iteration, execQuery does not
\* return success; main flushes the writer and prints one report on
\* standard error for the batch it reports; the records accepted so far are
\* all still held, and at the report they are all on standard output unless
\* the writer holds a write error (the output stream itself failed).
C12_DeadlineReturnsError ==
    /\ [](/\ Returned /\ timedOut => err.kind # "nil"
          /\ timedOut => AcceptedRecords(sink) = stdoutBatch \o cwBuf
          /\ pc = "report" /\ timedOut =>
                /\ flushed
                /\ ~cwErr => cwBuf = <<>> /\ stdoutBatch = AcceptedRecords(sink))
    /\ [][timedOut /\ pc = "report" /\ pc' # "report" /\ ~Killed' =>
             stderrN' = stderrN + 1]_vars

\* ------------------------------------------------------------------ C13
\* The last call of the log.
LastCall == sink[Len(sink)]

\* C13 as stated: when the next row is about to be fetched, the records of
\* the rows written so far can be observed, i.e. every accepted record is on
\* standard output.
C13_RowsVisibleBeforeNextFetch ==
    pc = "next" /\ rowCount > 0 => stdoutBatch = AcceptedRecords(sink)

\* C13 amended: the rows of a result set are handed to the writer in the
\* order the cursor delivers them, each by a Write call made before the next
\* row is fetched: at every fetch the rows fetched so far in this result set
\* all have their call, all accepted, and the last call carries the row
\* fetched last (for every column but a non-null DECIMAL, whose field is
\* not set from the value).  The writer buffers: standard output holds a
\* prefix of the accepted records, in call order, and the rest waits in the
\* buffer for the flush that follows the batch.
C13_RowsWrittenInOrder ==
    /\ pc \in {"next", "scan", "write"} =>
          /\ Cardinality(CallsOf("row", rsIdx)) = rowCount
          /\ \A i \in CallsOf("row", rsIdx) : sink[i].ok
    /\ pc = "next" /\ rowCount > 0 =>
          /\ LastCall.kind = "row"
          /\ LastCall.rs = rsIdx
          /\ Len(LastCall.rec) = Len(colTypes)
          /\ \A i \in 1..Len(colTypes) :
                (colTypes[i].typ # TypeDecimal \/ lastcols[i].t = "null") =>
                   LastCall.rec[i] =
                      FormatCell(colTypes[i], lastcols[i], <<>>, nullString).s
    /\ AcceptedRecords(sink) = stdoutBatch \o cwBuf
    /\ pc = "report" /\ ~cwErr => stdoutBatch = AcceptedRecords(sink)

\* The third row of the second result set is about to be fetched while the
\* two separators, the header and the first row are on standard output and
\* the second row waits in the writer's buffer.
C13_Witness ==
    /\ pc = "next"
    /\ rowCount = 2
    /\ Head(resp).rows # <<>>
    /\ Len(stdoutBatch) = 4
    /\ Len(cwBuf) = 1

\* ------------------------------------------------------------------ C14
\* The last call of the log is the Write of the row fetched last.
RowWritten ==
    \/ pc = "next" /\ rowCount > 0
    \/ pc = "flush" /\ err.kind = "rowwrite"

\* C14: in every data record handed to the writer, the field of every
\* column whose decoded value is nil is exactly the null literal, whatever
\* the column's type tag and whatever the rows before it held.
C14_NullLiteral ==
    RowWritten =>
       /\ LastCall.kind = "row"
       /\ \A i \in 1..Len(colTypes) :
             lastcols[i].t = "null" => LastCall.rec[i] = nullString

\* A row of four nil values, in columns of type UNIQUEIDENTIFIER, DECIMAL,
\* MONEY and BIT, was written after a row of four values.
C14_Witness ==
    /\ pc = "next"
    /\ rowCount = 2
    /\ colTypes = ColsF
    /\ lastcols = RowF0
    /\ nullString = <<"N", "U", "L", "L">>
    /\ LastCall.rec = << nullString, nullString, nullString, nullString >>
    /\ sink[Len(sink) - 1].rec # LastCall.rec

\* ------------------------------------------------------------------ C15
\* C15 as stated: in every data record handed to the writer, the field of a
\* DECIMAL column with a non-nil value is the text of the value's bytes,
\* which is what a MONEY column gets for the same value.
C15_DecimalAsRawText ==
    RowWritten =>
       \A i \in 1..Len(colTypes) :
          colTypes[i].typ = TypeDecimal /\ lastcols[i].t # "null" =>
             /\ LastCall.rec[i] = BytesToString(lastcols[i].x)
             /\ LastCall.rec[i] =
                   FormatCell([colTypes[i] EXCEPT !.typ = TypeMoney], lastcols[i],
                              <<>>, nullString).s

\* ------------------------------------------------------------------ C16
\* The size part of a label as the claim words it.
C16_Size(c) ==
    IF c.hasLength /\ c.length \in {2147483645, 1073741822}
    THEN <<"(", "m", "a", "x", ")">>
    ELSE IF c.hasLength
         THEN <<"(">> \o FormatInt(c.length) \o <<")">>
         ELSE IF c.hasDecimalSize
              THEN <<"(">> \o FormatInt(c.decimalSize) \o <<",">>
                   \o FormatInt(c.decimalScale) \o <<")">>
              ELSE <<>>
\* The nullability part of a label as the claim words it.
C16_Nullability(c) ==
    IF ~c.hasNullable THEN <<>>
    ELSE IF c.nullable THEN <<" ", "N", "U", "L", "L">>
         ELSE <<" ", "N", "O", "T", " ", "N", "U", "L", "L">>

\* C16: the header record holds one label per column, in column order, and
\* each label is the bracketed name, the type tag, the size part and the
\* nullability part as the claim words them.
C16_HeaderLabels ==
    \A k \in 1..Len(sink) :
       sink[k].kind = "header" =>
          /\ Len(sink[k].rec) = Len(colTypes)
          /\ \A i \in 1..Len(colTypes) :
                sink[k].rec[i] =
                   <<"[">> \o EscapeBrackets(colTypes[i].name) \o <<"]", " ">>
                   \o colTypes[i].typ \o C16_Size(colTypes[i])
                   \o C16_Nullability(colTypes[i])

\* The header of a DECIMAL(10,2) column and an unbounded VARBINARY column
\* named a]b has been written.
C16_Witness ==
    /\ pc = "next"
    /\ colTypes = << ColsF[2], ColsB[2] >>
    /\ LastCall.kind = "header"
    /\ LastCall.rec =
          << << "[", "d", "]", " ", "D", "E", "C", "I", "M", "A", "L",
                "(", "1", "0", ",", "2", ")", " ", "N", "U", "L", "L" >>,
             << "[", "a", "]", "]", "b", "]", " ", "V", "A", "R", "B", "I", "N", "A", "R", "Y",
                "(", "m", "a", "x", ")", " ", "N", "U", "L", "L" >> >>

\* ------------------------------------------------------------------ C17
\* The data records the writer accepted in this batch.
RowsAccepted == {i \in 1..Len(sink) : sink[i].kind = "row" /\ sink[i].ok}

\* C17 (the variant of part_000, which reports the count): the row loop's
\* counter is the number of data records written so far; for a batch that
\* succeeded, every data record was accepted and the count main prints is
\* their number; for a batch that failed no count is printed.
C17_RowCountReported ==
    /\ [](/\ pc \in {"next", "scan", "write", "close"} => rowCount = Cardinality(RowsAccepted)
          /\ Returned /\ err.kind = "nil" =>
                /\ rowCount = Cardinality(RowsAccepted)
                /\ \A i \in 1..Len(sink) : sink[i].ok)
    /\ [][pc = "report" /\ pc' # "report" /\ ~Killed' =>
             IF err.kind = "nil"
             THEN rowsQueried' = Cardinality(RowsAccepted)
             ELSE rowsQueried' = rowsQueried]_vars

\* The first batch wrote two rows and reported two; the second batch
\* failed, and the last count on standard error is still the first one.
C17_Witness ==
    /\ pc = "read"
    /\ submitted = 2
    /\ rowsQueried = 2
    /\ failures = 1
    /\ stdoutPrev

\* ------------------------------------------------------------------ C18
\* C18 as stated: a data record depends on its row, the column types and
\* the null literal only; so whatever rows came before it, it is the record
\* the same row gets as the first row of a result set, from an empty row
\* buffer.
C18_NoCarryOver ==
    RowWritten =>
       LastCall.rec =
          FormatRow(colTypes, lastcols, [i \in 1..Len(colTypes) |-> <<>>],
                    nullString, 1).formatted

\* ------------------------------------------------------------------ C19
\* C19 as stated: whenever execQuery has returned from a run on a cursor,
\* the cursor is closed.
C19_CursorClosedOnReturn ==
    Returned /\ Submitted => rows = "closed"

====
